---- MODULE Spec2Model ----
(***************************************************************************)
(* LocationImportJob (jobs/location_import.py): the import of a CSV of     *)
(* sites into the State -> City -> Branch/Data Center location hierarchy.  *)
(*                                                                         *)
(* Strings the code inspects (names, cities, state tokens) are sequences   *)
(* of one-character strings, so that str.title, str.endswith and the       *)
(* dictionary lookup are computed as Python computes them.  LocationType   *)
(* and Status records are referred to by their name.  A Location is a      *)
(* record of the Location table; its primary key is its index in           *)
(* `locations`, and parent = None (0) is the absent parent.                *)
(***************************************************************************)
EXTENDS Integers, Sequences, FiniteSets, TLC

VARIABLES
    locations,       \* the Location table
    location_types,  \* the names of the LocationType table's records
    statuses,        \* the names of the Status table's records
    job,             \* job[j]: the j-th execution of run
    hist,            \* hist[j]: what is recorded about the j-th execution
    written_by,      \* written_by[id]: the row that last wrote record id
    call_arg,        \* the argument of a helper called on its own
    call_ret         \* and what the call returned

vars == <<locations, location_types, statuses, job, hist, written_by,
          call_arg, call_ret>>

refs == <<location_types, statuses>>

pure == <<call_arg, call_ret>>

----------------------------------------------------------------------------
(* Bounds of the model *)

\* rows of the CSV of a single execution
MaxRows == 3
\* rows of each CSV of successive executions
MaxRerunRows == 2
\* executions of the job
MaxRuns == 2
\* rows of the CSV given to two executions at the same time
MaxConcRows == 2
\* length of the names given to get_location_type in ClassifySpec
MaxNameLen == 4
\* length of the free-form state tokens given to normalize_state in
\* NormalizeSpec
MaxStateLen == 4

----------------------------------------------------------------------------
(* Characters and str.title *)

UpperChars == <<"A","B","C","D","E","F","G","H","I","J","K","L","M",
                "N","O","P","Q","R","S","T","U","V","W","X","Y","Z">>

LowerChars == <<"a","b","c","d","e","f","g","h","i","j","k","l","m",
                "n","o","p","q","r","s","t","u","v","w","x","y","z">>

IsUpper(c) == \E k \in 1..26 : UpperChars[k] = c

IsLower(c) == \E k \in 1..26 : LowerChars[k] = c

IsCased(c) == IsUpper(c) \/ IsLower(c)

ToUpper(c) == IF IsLower(c) THEN UpperChars[CHOOSE k \in 1..26 : LowerChars[k] = c] ELSE c

ToLower(c) == IF IsUpper(c) THEN LowerChars[CHOOSE k \in 1..26 : UpperChars[k] = c] ELSE c

\* str.capitalize() in the place of str.title(): only the first character
\* is upper-cased
title_capitalize(s) ==
    [k \in 1..Len(s) |-> IF k > 1 THEN ToLower(s[k]) ELSE ToUpper(s[k])]

\* str.title(): a cased character is upper-cased when the character before it
\* is not cased (or there is none) and lower-cased when it is.
title(s) ==
    [k \in 1..Len(s) |->
        IF k > 1 /\ IsCased(s[k-1]) THEN ToLower(s[k]) ELSE ToUpper(s[k])]

\* str.endswith(suffix)
endswith(s, suffix) ==
    /\ Len(s) >= Len(suffix)
    /\ SubSeq(s, Len(s) - Len(suffix) + 1, Len(s)) = suffix

----------------------------------------------------------------------------
(* State Normalizer *)

\* the dictionary, as its (key, value) pairs
STATE_MAPPING ==
    {
       <<<<"A","L">>, <<"A","l","a","b","a","m","a">>>>,
       <<<<"A","K">>, <<"A","l","a","s","k","a">>>>,
       <<<<"A","Z">>, <<"A","r","i","z","o","n","a">>>>,
       <<<<"A","R">>, <<"A","r","k","a","n","s","a","s">>>>,
       <<<<"C","A">>, <<"C","a","l","i","f","o","r","n","i","a">>>>,
       <<<<"C","O">>, <<"C","o","l","o","r","a","d","o">>>>,
       <<<<"C","T">>, <<"C","o","n","n","e","c","t","i","c","u","t">>>>,
       <<<<"D","E">>, <<"D","e","l","a","w","a","r","e">>>>,
       <<<<"F","L">>, <<"F","l","o","r","i","d","a">>>>,
       <<<<"G","A">>, <<"G","e","o","r","g","i","a">>>>,
       <<<<"H","I">>, <<"H","a","w","a","i","i">>>>,
       <<<<"I","D">>, <<"I","d","a","h","o">>>>,
       <<<<"I","L">>, <<"I","l","l","i","n","o","i","s">>>>,
       <<<<"I","N">>, <<"I","n","d","i","a","n","a">>>>,
       <<<<"I","A">>, <<"I","o","w","a">>>>,
       <<<<"K","S">>, <<"K","a","n","s","a","s">>>>,
       <<<<"K","Y">>, <<"K","e","n","t","u","c","k","y">>>>,
       <<<<"L","A">>, <<"L","o","u","i","s","i","a","n","a">>>>,
       <<<<"M","E">>, <<"M","a","i","n","e">>>>,
       <<<<"M","D">>, <<"M","a","r","y","l","a","n","d">>>>,
       <<<<"M","A">>, <<"M","a","s","s","a","c","h","u","s","e","t","t","s">>>>,
       <<<<"M","I">>, <<"M","i","c","h","i","g","a","n">>>>,
       <<<<"M","N">>, <<"M","i","n","n","e","s","o","t","a">>>>,
       <<<<"M","S">>, <<"M","i","s","s","i","s","s","i","p","p","i">>>>,
       <<<<"M","O">>, <<"M","i","s","s","o","u","r","i">>>>,
       <<<<"M","T">>, <<"M","o","n","t","a","n","a">>>>,
       <<<<"N","E">>, <<"N","e","b","r","a","s","k","a">>>>,
       <<<<"N","V">>, <<"N","e","v","a","d","a">>>>,
       <<<<"N","H">>, <<"N","e","w"," ","H","a","m","p","s","h","i","r","e">>>>,
       <<<<"N","J">>, <<"N","e","w"," ","J","e","r","s","e","y">>>>,
       <<<<"N","M">>, <<"N","e","w"," ","M","e","x","i","c","o">>>>,
       <<<<"N","Y">>, <<"N","e","w"," ","Y","o","r","k">>>>,
       <<<<"N","C">>, <<"N","o","r","t","h"," ","C","a","r","o","l","i","n","a">>>>,
       <<<<"N","D">>, <<"N","o","r","t","h"," ","D","a","k","o","t","a">>>>,
       <<<<"O","H">>, <<"O","h","i","o">>>>,
       <<<<"O","K">>, <<"O","k","l","a","h","o","m","a">>>>,
       <<<<"O","R">>, <<"O","r","e","g","o","n">>>>,
       <<<<"P","A">>, <<"P","e","n","n","s","y","l","v","a","n","i","a">>>>,
       <<<<"R","I">>, <<"R","h","o","d","e"," ","I","s","l","a","n","d">>>>,
       <<<<"S","C">>, <<"S","o","u","t","h"," ","C","a","r","o","l","i","n","a">>>>,
       <<<<"S","D">>, <<"S","o","u","t","h"," ","D","a","k","o","t","a">>>>,
       <<<<"T","N">>, <<"T","e","n","n","e","s","s","e","e">>>>,
       <<<<"T","X">>, <<"T","e","x","a","s">>>>,
       <<<<"U","T">>, <<"U","t","a","h">>>>,
       <<<<"V","T">>, <<"V","e","r","m","o","n","t">>>>,
       <<<<"V","A">>, <<"V","i","r","g","i","n","i","a">>>>,
       <<<<"W","A">>, <<"W","a","s","h","i","n","g","t","o","n">>>>,
       <<<<"W","V">>, <<"W","e","s","t"," ","V","i","r","g","i","n","i","a">>>>,
       <<<<"W","I">>, <<"W","i","s","c","o","n","s","i","n">>>>,
       <<<<"W","Y">>, <<"W","y","o","m","i","n","g">>>>
    }

InStateMapping(state) == \E kv \in STATE_MAPPING : kv[1] = state

\* the lookup made with the upper-cased token
normalize_state_upper(state) ==
    LET upper == [k \in 1..Len(state) |-> ToUpper(state[k])] IN
    IF InStateMapping(upper)
    THEN (CHOOSE kv \in STATE_MAPPING : kv[1] = upper)[2]
    ELSE title(state)

normalize_state(state) ==
    IF InStateMapping(state)
    THEN (CHOOSE kv \in STATE_MAPPING : kv[1] = state)[2]
    ELSE title(state)

----------------------------------------------------------------------------
(* Reference data and the Type Classifier *)

None == 0

DC_SUFFIX == <<"-","D","C">>

BR_SUFFIX == <<"-","B","R">>

AllLocationTypes == {"State", "City", "Data Center", "Branch"}

LeafTypes == {"Data Center", "Branch"}

\* X.objects.get(name=...) on a reference table: the record, or DoesNotExist
objects_get(table, name) ==
    IF name \in table
    THEN [ok |-> TRUE, value |-> name]
    ELSE [ok |-> FALSE, exc |-> [kind |-> "DoesNotExist", name |-> <<>>, missing |-> name]]

\* the suffix looked for anywhere in the name
get_location_type_contains(types, name) ==
    LET Contains(sub) == \E n \in 1..Len(name) : endswith(SubSeq(name, 1, n), sub) IN
    IF Contains(DC_SUFFIX) THEN objects_get(types, "Data Center")
    ELSE IF Contains(BR_SUFFIX) THEN objects_get(types, "Branch")
    ELSE [ok |-> FALSE, exc |-> [kind |-> "ValueError", name |-> name, missing |-> ""]]

get_location_type(types, name) ==
    IF endswith(name, DC_SUFFIX) THEN objects_get(types, "Data Center")
    ELSE IF endswith(name, BR_SUFFIX) THEN objects_get(types, "Branch")
    ELSE [ok |-> FALSE, exc |-> [kind |-> "ValueError", name |-> name, missing |-> ""]]

----------------------------------------------------------------------------
(* The Location table and Location.objects.get_or_create *)

LocationFields == {"name", "location_type", "status", "parent"}

\* ids of the records whose fields equal the lookup's keyword arguments
Matching(store, kwargs) ==
    {id \in 1..Len(store) : \A f \in DOMAIN kwargs : store[id][f] = kwargs[f]}

\* the record create(**kwargs, **defaults) inserts; a field given by neither
\* is None
NewLocation(kwargs, defaults) ==
    [f \in LocationFields |->
        IF f \in DOMAIN kwargs THEN kwargs[f]
        ELSE IF f \in DOMAIN defaults THEN defaults[f]
        ELSE None]

StoreError == [kind |-> "StoreError", name |-> <<>>, missing |-> ""]

\* update_or_create() in the place of get_or_create(): the defaults are
\* written to the record that was found
get_or_create_update(store, kwargs, defaults, reject) ==
    LET found == Matching(store, kwargs) IN
    IF reject THEN [ok |-> FALSE, exc |-> StoreError]
    ELSE IF Cardinality(found) > 1
    THEN [ok |-> FALSE,
          exc |-> [kind |-> "MultipleObjectsReturned", name |-> <<>>, missing |-> ""]]
    ELSE IF Cardinality(found) = 1
    THEN LET id == CHOOSE i \in found : TRUE IN
         [ok |-> TRUE,
          store |-> [store EXCEPT ![id] =
                        [f \in LocationFields |->
                            IF f \in DOMAIN defaults THEN defaults[f] ELSE @[f]]],
          id |-> id, created |-> FALSE]
    ELSE [ok |-> TRUE, store |-> Append(store, NewLocation(kwargs, defaults)),
          id |-> Len(store) + 1, created |-> TRUE]

\* create() in the place of get_or_create(): no lookup before the insert
get_or_create_insert(store, kwargs, defaults, reject) ==
    IF reject THEN [ok |-> FALSE, exc |-> StoreError]
    ELSE [ok |-> TRUE, store |-> Append(store, NewLocation(kwargs, defaults)),
          id |-> Len(store) + 1, created |-> TRUE]

\* get_or_create(defaults=..., **kwargs): the one matching record unchanged,
\* or a new record, or MultipleObjectsReturned when several match.  `reject`
\* is the store refusing the call (an error of the external store).
get_or_create(store, kwargs, defaults, reject) ==
    LET found == Matching(store, kwargs) IN
    IF reject THEN [ok |-> FALSE, exc |-> StoreError]
    ELSE IF Cardinality(found) > 1
    THEN [ok |-> FALSE,
          exc |-> [kind |-> "MultipleObjectsReturned", name |-> <<>>, missing |-> ""]]
    ELSE IF Cardinality(found) = 1
    THEN [ok |-> TRUE, store |-> store, id |-> CHOOSE id \in found : TRUE,
          created |-> FALSE]
    ELSE [ok |-> TRUE, store |-> Append(store, NewLocation(kwargs, defaults)),
          id |-> Len(store) + 1, created |-> TRUE]

\* the lookup keys of the three get_or_create calls
StateKwargs(full_state_name) ==
    [name |-> full_state_name, location_type |-> "State"]

CityKwargs(city, state_location) ==
    [name |-> city, location_type |-> "City", parent |-> state_location]

SiteKwargs(name) == [name |-> name]

StateDefaults == [status |-> "Active"]

CityDefaults == [status |-> "Active"]

SiteDefaults(location_type, city_location) ==
    [location_type |-> location_type, status |-> "Active", parent |-> city_location]

\* the update without the line that sets the status
UpdatedSite_keep_status(rec, location_type, city_location) ==
    [rec EXCEPT !.location_type = location_type,
                !.parent = city_location]

\* the update without the line that sets the location_type
UpdatedSite_keep_type(rec, location_type, city_location) ==
    [rec EXCEPT !.status = "Active",
                !.parent = city_location]

\* the in-place update of an existing site and its save()
UpdatedSite(rec, location_type, city_location) ==
    [rec EXCEPT !.location_type = location_type,
                !.status = "Active",
                !.parent = city_location]

----------------------------------------------------------------------------
(* Inputs *)

Row(name, city, state) == [name |-> name, city |-> city, state |-> state]

A_DC == <<"A","-","D","C">>

B_BR == <<"B","-","B","R">>

BAD == <<"B","A","D">>

Austin == <<"A","u","s","t","i","n">>

\* the rows a CSV is made of: two sites, the same site under another state,
\* a state given by name in lower case, a name without suffix, and cities
\* named like a site
Rows ==
    { Row(A_DC, Austin, <<"T","X">>),
      Row(A_DC, Austin, <<"C","O">>),
      Row(B_BR, Austin, <<"t","e","x","a","s">>),
      Row(BAD,  Austin, <<"T","X">>),
      Row(A_DC, A_DC,   <<"T","X">>),
      Row(B_BR, A_DC,   <<"T","X">>) }

SeqsUpTo(S, n) == UNION {[1..k -> S] : k \in 0..n}

\* the rows of a single run: those above and one whose city is spelled like
\* its unclassifiable name
RunRows == Rows \cup { Row(BAD, BAD, <<"T","X">>) }

CSVs == SeqsUpTo(RunRows, MaxRows)

RerunCSVs == SeqsUpTo(Rows, MaxRerunRows)

Jobs == 1..MaxRuns

\* the LocationType table: complete, or with one record missing
TypeTables == {AllLocationTypes} \cup {AllLocationTypes \ {t} : t \in AllLocationTypes}

StatusTables == {{"Active", "Retired"}, {"Retired"}}

Texas == <<"T","e","x","a","s">>

\* the Location table before the first run: empty, or holding records that
\* were not written by this job
InitialStores ==
    { <<>>,
      << [name |-> Texas,  location_type |-> "State",  status |-> "Retired", parent |-> None],
         [name |-> Austin, location_type |-> "City",   status |-> "Retired", parent |-> 1],
         [name |-> A_DC,   location_type |-> "Branch", status |-> "Retired", parent |-> 2] >> }

----------------------------------------------------------------------------
(* The job: LocationImportJob.run *)

\* stands for the writer of a record this job did not write
NoRow == Row(<<>>, <<>>, <<>>)

IdleJob ==
    [pc |-> "idle", csv_data |-> <<>>, row |-> 0,
     full_state_name |-> <<>>, state_location |-> None, city_location |-> None,
     location_type |-> "", site_location |-> None,
     created_or_updated |-> <<>>, log |-> <<>>, result |-> <<>>, exc |-> <<>>]

\* what is recorded about a run to state the properties: the store calls it
\* made, the Location table when it began, when the row it processed last
\* began and when it ended, and the row that raised (0: none)
IdleHist ==
    [calls |-> <<>>, begin_store |-> <<>>, row_store |-> <<>>, end_store |-> <<>>,
     failed_row |-> 0]

Init ==
    /\ location_types \in TypeTables
    /\ statuses \in StatusTables
    /\ locations \in InitialStores
    /\ \A id \in 1..Len(locations) :
          /\ locations[id].location_type \in location_types
          /\ locations[id].status \in statuses
    /\ job = [j \in Jobs |-> IdleJob]
    /\ hist = [j \in Jobs |-> IdleHist]
    /\ written_by = [id \in 1..Len(locations) |-> NoRow]
    /\ call_arg = <<>>
    /\ call_ret = <<>>

Ended(j) == job[j].pc \in {"returned", "raised"}

CurrentRow(jr) == jr.csv_data[jr.row]

InfoLine(text, name, city, state) ==
    [level |-> "info", text |-> text, name |-> name, city |-> city, state |-> state,
     exc |-> ""]

ErrorLine(name, e) ==
    [level |-> "error", text |-> "Error processing location", name |-> name,
     city |-> <<>>, state |-> <<>>, exc |-> e.kind]

\* return f"Successfully processed {len(created_or_updated)} locations"
Summary(created_or_updated) ==
    [text |-> "Successfully processed", n |-> Len(created_or_updated)]

\* the handler going on with the next row instead of raising
HandleException_continue(jr, e) ==
    [jr EXCEPT !.log = Append(@, ErrorLine(CurrentRow(jr).name, e)),
               !.exc = <<e>>,
               !.row = @ + 1,
               !.pc = "state"]

\* the handler raising without the error line
HandleException_no_log(jr, e) ==
    [jr EXCEPT !.exc = <<e>>,
               !.pc = "raised"]

\* the handler leaving the loop and returning the summary
HandleException_return(jr, e) ==
    [jr EXCEPT !.log = Append(@, ErrorLine(CurrentRow(jr).name, e)),
               !.exc = <<e>>,
               !.result = <<Summary(jr.created_or_updated)>>,
               !.pc = "returned"]

\* except Exception as e: log the row's name, raise
HandleException(jr, e) ==
    [jr EXCEPT !.log = Append(@, ErrorLine(CurrentRow(jr).name, e)),
               !.exc = <<e>>,
               !.pc = "raised"]

\* the site appended only when it was created
RecordSite_created_only(jr, id, site_created) ==
    [jr EXCEPT !.site_location = id,
               !.created_or_updated = IF site_created THEN Append(@, id) ELSE @,
               !.log = Append(@, InfoLine(IF site_created THEN "Created location"
                                                          ELSE "Updated location",
                                          CurrentRow(jr).name, CurrentRow(jr).city,
                                          jr.full_state_name)),
               !.row = @ + 1,
               !.pc = "state"]

\* the end of a row's try block: append the site, log it, next row
RecordSite(jr, id, site_created) ==
    [jr EXCEPT !.site_location = id,
               !.created_or_updated = Append(@, id),
               !.log = Append(@, InfoLine(IF site_created THEN "Created location"
                                                          ELSE "Updated location",
                                          CurrentRow(jr).name, CurrentRow(jr).city,
                                          jr.full_state_name)),
               !.row = @ + 1,
               !.pc = "state"]

\* the calls to the store and to the logger, in order, with the row they were made for
Called(j, ops) ==
    hist[j].calls \o [k \in 1..Len(ops) |-> [op |-> ops[k], row |-> job[j].row]]

\* the writes of the run undone by the handler
StoreAfterException_rollback(store, begin_store) == begin_store

\* the Location table after the except block: the handler makes no store
\* call, so what the run has written stays written
StoreAfterException(store, begin_store) == store

\* a step of job j that raised e inside the try block, by call op
Raise(j, e, op) ==
    /\ locations' = StoreAfterException(locations, hist[j].begin_store)
    /\ job' = [job EXCEPT ![j] = HandleException(@, e)]
    /\ hist' = [hist EXCEPT ![j].calls = Called(j, <<op, "error">>),
                            ![j].failed_row = job[j].row,
                            ![j].row_store = IF job[j].pc = "state" THEN locations ELSE @,
                            ![j].end_store = locations']
    /\ UNCHANGED written_by

\* lines 55-65: the reader, the State and City types, the Active status.  A
\* missing record raises before the loop, outside the try block.
Begin(j, csv) ==
    /\ job[j].pc = "idle"
    /\ LET state_type == objects_get(location_types, "State")
           city_type == objects_get(location_types, "City")
           active_status == objects_get(statuses, "Active")
           e == IF ~state_type.ok THEN state_type.exc
                ELSE IF ~city_type.ok THEN city_type.exc
                ELSE active_status.exc
       IN  IF state_type.ok /\ city_type.ok /\ active_status.ok
           THEN /\ job' = [job EXCEPT ![j] = [IdleJob EXCEPT !.pc = "state",
                                                              !.csv_data = csv,
                                                              !.row = 1]]
                /\ hist' = [hist EXCEPT ![j].begin_store = locations,
                                        ![j].row_store = locations]
           ELSE /\ job' = [job EXCEPT ![j] = [IdleJob EXCEPT !.pc = "raised",
                                                              !.csv_data = csv,
                                                              !.exc = <<e>>]]
                /\ hist' = [hist EXCEPT ![j].begin_store = locations,
                                        ![j].end_store = locations]
    /\ UNCHANGED <<locations, refs, written_by, pure>>

\* one job at a time: a run begins when the run before it has ended
BeginNext(j, csv) ==
    /\ IF j = 1 THEN TRUE ELSE Ended(j - 1)
    /\ Begin(j, csv)

\* 1. Create/Get State Location
\* the row classified before its State is resolved
ResolveState_classify_first(j, reject) ==
    /\ job[j].pc = "state"
    /\ job[j].row <= Len(job[j].csv_data)
    /\ LET row == CurrentRow(job[j])
           full_state_name == normalize_state(row.state)
           location_type == get_location_type(location_types, row.name)
           got == get_or_create(locations, StateKwargs(full_state_name),
                                StateDefaults, reject)
       IN  IF ~location_type.ok
           THEN Raise(j, location_type.exc, "get")
           ELSE IF got.ok
           THEN /\ locations' = got.store
                /\ job' = [job EXCEPT
                      ![j].full_state_name = full_state_name,
                      ![j].state_location = got.id,
                      ![j].log = IF got.created
                                 THEN Append(@, InfoLine("Created state location",
                                                         full_state_name, <<>>, <<>>))
                                 ELSE @,
                      ![j].pc = "city"]
                /\ hist' = [hist EXCEPT
                      ![j].calls = Called(j, IF got.created
                                             THEN <<"get_or_create", "info">>
                                             ELSE <<"get_or_create">>),
                      ![j].row_store = locations]
                /\ written_by' = IF got.created THEN Append(written_by, row)
                                                ELSE written_by
           ELSE Raise(j, got.exc, "get_or_create")
    /\ UNCHANGED <<refs, pure>>

ResolveState(j, reject) ==
    /\ job[j].pc = "state"
    /\ job[j].row <= Len(job[j].csv_data)
    /\ LET row == CurrentRow(job[j])
           full_state_name == normalize_state(row.state)
           got == get_or_create(locations, StateKwargs(full_state_name),
                                StateDefaults, reject)
       IN  IF got.ok
           THEN /\ locations' = got.store
                /\ job' = [job EXCEPT
                      ![j].full_state_name = full_state_name,
                      ![j].state_location = got.id,
                      ![j].log = IF got.created
                                 THEN Append(@, InfoLine("Created state location",
                                                         full_state_name, <<>>, <<>>))
                                 ELSE @,
                      ![j].pc = "city"]
                /\ hist' = [hist EXCEPT
                      ![j].calls = Called(j, IF got.created
                                             THEN <<"get_or_create", "info">>
                                             ELSE <<"get_or_create">>),
                      ![j].row_store = locations]
                /\ written_by' = IF got.created THEN Append(written_by, row)
                                                ELSE written_by
           ELSE Raise(j, got.exc, "get_or_create")
    /\ UNCHANGED <<refs, pure>>

\* 2. Create/Get City Location
ResolveCity(j, reject) ==
    /\ job[j].pc = "city"
    /\ LET row == CurrentRow(job[j])
           got == get_or_create(locations,
                                CityKwargs(row.city, job[j].state_location),
                                CityDefaults, reject)
       IN  IF got.ok
           THEN /\ locations' = got.store
                /\ job' = [job EXCEPT
                      ![j].city_location = got.id,
                      ![j].log = IF got.created
                                 THEN Append(@, InfoLine("Created city location",
                                                         row.city, <<>>,
                                                         job[j].full_state_name))
                                 ELSE @,
                      ![j].pc = "site"]
                /\ hist' = [hist EXCEPT
                      ![j].calls = Called(j, IF got.created
                                             THEN <<"get_or_create", "info">>
                                             ELSE <<"get_or_create">>)]
                /\ written_by' = IF got.created THEN Append(written_by, row)
                                                ELSE written_by
           ELSE Raise(j, got.exc, "get_or_create")
    /\ UNCHANGED <<refs, pure>>

\* 3. Create/Update Branch or DC Location: the classification and the
\* get_or_create by name; a created site ends the row
ResolveSite(j, reject) ==
    /\ job[j].pc = "site"
    /\ LET row == CurrentRow(job[j])
           location_type == get_location_type(location_types, row.name)
           got == get_or_create(locations, SiteKwargs(row.name),
                                SiteDefaults(location_type.value, job[j].city_location),
                                reject)
       IN  IF ~location_type.ok
           THEN Raise(j, location_type.exc, "get")
           ELSE IF ~got.ok
           THEN Raise(j, got.exc, "get_or_create")
           ELSE /\ locations' = got.store
                /\ job' = [job EXCEPT ![j] =
                      IF got.created
                      THEN RecordSite([@ EXCEPT !.location_type = location_type.value],
                                      got.id, TRUE)
                      ELSE [@ EXCEPT !.location_type = location_type.value,
                                     !.site_location = got.id,
                                     !.pc = "save"]]
                /\ hist' = [hist EXCEPT
                      ![j].calls = Called(j, IF got.created
                                             THEN <<"get", "get_or_create", "info">>
                                             ELSE <<"get", "get_or_create">>)]
                /\ written_by' = IF got.created THEN Append(written_by, row)
                                                ELSE written_by
    /\ UNCHANGED <<refs, pure>>

\* if not site_created: overwrite location_type, status and parent, save()
SaveSite(j, reject) ==
    /\ job[j].pc = "save"
    /\ LET id == job[j].site_location IN
       IF reject
       THEN Raise(j, StoreError, "save")
       ELSE /\ locations' = [locations EXCEPT ![id] =
                  UpdatedSite(@, job[j].location_type, job[j].city_location)]
            /\ job' = [job EXCEPT ![j] = RecordSite(@, id, FALSE)]
            /\ hist' = [hist EXCEPT ![j].calls = Called(j, <<"save", "info">>)]
            /\ written_by' = [written_by EXCEPT ![id] = CurrentRow(job[j])]
    /\ UNCHANGED <<refs, pure>>

\* the loop is exhausted: return the summary
Finish(j) ==
    /\ job[j].pc = "state"
    /\ job[j].row > Len(job[j].csv_data)
    /\ job' = [job EXCEPT ![j].result = <<Summary(job[j].created_or_updated)>>,
                          ![j].pc = "returned"]
    /\ hist' = [hist EXCEPT ![j].end_store = locations]
    /\ UNCHANGED <<locations, refs, written_by, pure>>

Next ==
    \/ \E j \in Jobs, csv \in RerunCSVs : BeginNext(j, csv)
    \/ \E j \in Jobs, reject \in BOOLEAN : ResolveState(j, reject)
    \/ \E j \in Jobs, reject \in BOOLEAN : ResolveCity(j, reject)
    \/ \E j \in Jobs, reject \in BOOLEAN : ResolveSite(j, reject)
    \/ \E j \in Jobs, reject \in BOOLEAN : SaveSite(j, reject)
    \/ \E j \in Jobs : Finish(j)

\* successive executions of the job on one store
Spec == Init /\ [][Next]_vars

NextRun ==
    \/ \E csv \in CSVs : Begin(1, csv)
    \/ \E reject \in BOOLEAN : ResolveState(1, reject)
    \/ \E reject \in BOOLEAN : ResolveCity(1, reject)
    \/ \E reject \in BOOLEAN : ResolveSite(1, reject)
    \/ \E reject \in BOOLEAN : SaveSite(1, reject)
    \/ Finish(1)

\* instances of the job that run at the same time on one table
Instances == {1, 2}

ConcCSVs == SeqsUpTo(Rows, MaxConcRows)

\* An instance starts on the CSV the other instance was given.  The reads of
\* lines 59-63 touch only the reference tables, which no run writes, so they
\* commute with every call of the other instance and are placed before its
\* first write to the table.
BeginConc(j, csv) ==
    /\ \A k \in Instances \ {j} :
           \/ job[k].pc = "idle"
           \/ job[k].csv_data = csv /\ hist[k].begin_store = locations
    /\ Begin(j, csv)

NextConc ==
    \/ \E j \in Instances, csv \in ConcCSVs : BeginConc(j, csv)
    \/ \E j \in Instances, reject \in BOOLEAN : ResolveState(j, reject)
    \/ \E j \in Instances, reject \in BOOLEAN : ResolveCity(j, reject)
    \/ \E j \in Instances, reject \in BOOLEAN : ResolveSite(j, reject)
    \/ \E j \in Instances, reject \in BOOLEAN : SaveSite(j, reject)
    \/ \E j \in Instances : Finish(j)

\* two executions of the job on the same CSV, interleaved call by call
ConcSpec == Init /\ [][NextConc]_vars

\* one execution of the job
RunSpec == Init /\ [][NextRun]_vars

----------------------------------------------------------------------------
(* get_location_type called on its own *)

ClassifyChars == {"-", "D", "C", "B", "R", "c"}

ClassifyNames == SeqsUpTo(ClassifyChars, MaxNameLen)

InitClassify ==
    /\ location_types \in TypeTables
    /\ statuses = {"Active", "Retired"}
    /\ locations = <<>>
    /\ job = [j \in Jobs |-> IdleJob]
    /\ hist = [j \in Jobs |-> IdleHist]
    /\ written_by = <<>>
    /\ call_arg \in ClassifyNames
    /\ call_ret = <<>>

Classify ==
    /\ call_ret = <<>>
    /\ call_ret' = <<get_location_type(location_types, call_arg)>>
    /\ UNCHANGED <<locations, refs, job, hist, written_by, call_arg>>

ClassifySpec == InitClassify /\ [][Classify]_vars

----------------------------------------------------------------------------
(* normalize_state called on its own, and again on what it returned *)

StateKeys == {kv[1] : kv \in STATE_MAPPING}

StateNames == {kv[2] : kv \in STATE_MAPPING}

LowerCased(s) == [k \in 1..Len(s) |-> ToLower(s[k])]

NormalizeChars == {"T", "X", "t", "x", " "}

\* the abbreviations, in upper, lower and mixed case, the full names, and
\* every short token over a few characters
NormalizeInputs ==
    StateKeys \cup {LowerCased(key) : key \in StateKeys}
              \cup {<<key[1], ToLower(key[2])>> : key \in StateKeys}
              \cup StateNames
              \cup SeqsUpTo(NormalizeChars, MaxStateLen)

InitNormalize ==
    /\ location_types = AllLocationTypes
    /\ statuses = {"Active", "Retired"}
    /\ locations = <<>>
    /\ job = [j \in Jobs |-> IdleJob]
    /\ hist = [j \in Jobs |-> IdleHist]
    /\ written_by = <<>>
    /\ call_arg \in NormalizeInputs
    /\ call_ret = <<>>

Normalize ==
    /\ Len(call_ret) < 2
    /\ call_ret' = Append(call_ret,
                          normalize_state(IF call_ret = <<>> THEN call_arg
                                                             ELSE call_ret[1]))
    /\ UNCHANGED <<locations, refs, job, hist, written_by, call_arg>>

NormalizeSpec == InitNormalize /\ [][Normalize]_vars

----------------------------------------------------------------------------
(* Notions the properties are stated with *)

\* job j is the execution under way or the last one that ended
Current(j) ==
    /\ job[j].pc # "idle"
    /\ IF j = MaxRuns THEN TRUE ELSE job[j + 1].pc = "idle"

\* the Location table as job j left it, or as it is while j runs
StoreOf(j) == IF Ended(j) THEN hist[j].end_store ELSE locations

\* the Location table before the first execution
FirstStore == IF job[1].pc = "idle" THEN locations ELSE hist[1].begin_store

StateOrCityIds(store) ==
    {id \in 1..Len(store) : store[id].location_type \in {"State", "City"}}

\* name = p \o suffix for some p
HasSuffix(name, suffix) ==
    \E n \in 0..Len(name) :
        /\ Len(name) = n + Len(suffix)
        /\ \A k \in 1..Len(suffix) : name[n + k] = suffix[k]

\* the values a row computes for its site: the type of its suffix, Active,
\* and the City named row.city under the State named by the normalized state
IsSiteOfRow(store, id, row) ==
    LET rec == store[id] IN
    /\ rec.name = row.name
    /\ rec.location_type = (IF HasSuffix(row.name, DC_SUFFIX) THEN "Data Center"
                            ELSE "Branch")
    /\ rec.status = "Active"
    /\ rec.parent # None
    /\ LET city == store[rec.parent] IN
        /\ city.location_type = "City"
        /\ city.name = row.city
        /\ city.parent # None
        /\ store[city.parent].location_type = "State"
        /\ store[city.parent].name = normalize_state(row.state)

\* k is the last row of csv with its name
IsLastOfName(csv, k) == \A m \in (k + 1)..Len(csv) : csv[m].name # csv[k].name

\* rows of job j that reached Done
DoneRows(j) == Len(job[j].created_or_updated)

----------------------------------------------------------------------------
(* C1 *)

\* job j processes the CSV that the job before it processed without failure
SameCsvAgain(j) ==
    /\ j > 1
    /\ job[j].pc # "idle"
    /\ job[j - 1].pc = "returned"
    /\ job[j].csv_data = job[j - 1].csv_data

\* C1: a second run of a CSV that the first run processed without failure
\* creates no State or City record, and when it has returned every site of
\* the CSV is a single record whose location_type, status and parent are
\* those computed from the last row of the CSV with that name.
C1_Idempotent ==
    \A j \in Jobs :
        SameCsvAgain(j) =>
            /\ Cardinality(StateOrCityIds(StoreOf(j)))
                  = Cardinality(StateOrCityIds(hist[j].begin_store))
            /\ job[j].pc = "returned" =>
                  \A k \in 1..Len(job[j].csv_data) :
                      IsLastOfName(job[j].csv_data, k) =>
                          LET ids == Matching(hist[j].end_store,
                                              SiteKwargs(job[j].csv_data[k].name))
                          IN  /\ Cardinality(ids) = 1
                              /\ \A id \in ids :
                                    IsSiteOfRow(hist[j].end_store, id,
                                                job[j].csv_data[k])

----------------------------------------------------------------------------
(* C2 *)

\* the row of job j whose processing has just ended: by reaching Done, or by
\* an exception that the store's records caused (not by the store refusing a
\* call); 0 when there is none
RowJustEnded(j) ==
    IF job[j].pc \in {"state", "returned"} THEN job[j].row - 1
    ELSE IF job[j].pc = "raised" /\ hist[j].failed_row > 0
            /\ job[j].exc[1].kind = "MultipleObjectsReturned"
    THEN hist[j].failed_row
    ELSE 0

\* row k of job j follows a row that reached Done, in the same run or in an
\* earlier one, with the same site name under another city or state
RelocatesEarlierRow(j, k) ==
    LET row == job[j].csv_data[k]
        Relocated(r) == r.name = row.name /\ (r.city # row.city \/ r.state # row.state)
    IN  \/ \E m \in 1..(k - 1) : Relocated(job[j].csv_data[m])
        \/ \E i \in 1..(j - 1) : \E m \in 1..DoneRows(i) : Relocated(job[i].csv_data[m])

\* C2: after a row that carries the site name of an earlier row under another
\* city or state, the store holds a single location with that name and its
\* parent is the City resolved from the later row.
C2_Relocation ==
    \A j \in Jobs :
        (Current(j) /\ RowJustEnded(j) > 0 /\ RelocatesEarlierRow(j, RowJustEnded(j))) =>
            LET ids == Matching(locations,
                                SiteKwargs(job[j].csv_data[RowJustEnded(j)].name))
            IN  /\ Cardinality(ids) = 1
                /\ \A id \in ids : locations[id].parent = job[j].city_location

\* the same for a later row that reached Done
C2_RelocationWhenDone ==
    \A j \in Jobs :
        (Current(j) /\ job[j].pc \in {"state", "returned"} /\ job[j].row > 1
            /\ RelocatesEarlierRow(j, job[j].row - 1)) =>
            LET ids == Matching(locations,
                                SiteKwargs(job[j].csv_data[job[j].row - 1].name))
            IN  /\ Cardinality(ids) = 1
                /\ \A id \in ids : locations[id].parent = job[j].city_location

----------------------------------------------------------------------------
(* C3 *)

\* C3: in runs that start from an empty Location table, every City has as
\* parent a State named by the normalized state of the row that resolved it,
\* and every Data Center or Branch has as parent a City named by the city
\* field of the last row that wrote it.
C3_ParentInvariant ==
    FirstStore = <<>> =>
        \A id \in 1..Len(locations) :
            LET rec == locations[id] IN
            /\ rec.location_type = "City" =>
                  /\ rec.parent # None
                  /\ locations[rec.parent].location_type = "State"
                  /\ locations[rec.parent].name = normalize_state(written_by[id].state)
            /\ rec.location_type \in LeafTypes =>
                  /\ rec.parent # None
                  /\ locations[rec.parent].location_type = "City"
                  /\ locations[rec.parent].name = written_by[id].city

----------------------------------------------------------------------------
(* C4 *)

LastOf(seq) == seq[Len(seq)]

\* C4: once a row has raised, the run has ended as failed at that row: every
\* call to the store or the logger was made for that row or an earlier one,
\* and the last call is the error line of the failing row.
C4_AbortOnFirstFailure ==
    \A j \in Jobs :
        hist[j].failed_row > 0 =>
            /\ job[j].pc = "raised"
            /\ job[j].row = hist[j].failed_row
            /\ \A k \in 1..Len(hist[j].calls) : hist[j].calls[k].row <= hist[j].failed_row
            /\ LastOf(hist[j].calls) = [op |-> "error", row |-> hist[j].failed_row]

\* a row that is not the last one of its CSV has raised
C4_Witness ==
    \E j \in Jobs :
        /\ hist[j].failed_row > 0
        /\ hist[j].failed_row < Len(job[j].csv_data)
        /\ job[j].exc[1].kind = "ValueError"

----------------------------------------------------------------------------
(* C5 *)

\* C5: when a row fails, the Location table still holds every record that
\* was there when the failing row began, unchanged: what the earlier rows of
\* the run created or updated stays as they wrote it.
C5_NoRollback ==
    \A j \in Jobs :
        hist[j].failed_row > 0 =>
            /\ Len(hist[j].end_store) >= Len(hist[j].row_store)
            /\ \A id \in 1..Len(hist[j].row_store) :
                  hist[j].end_store[id] = hist[j].row_store[id]
            /\ Current(j) => locations = hist[j].end_store

\* a row fails after earlier rows of the run created and updated records
C5_Witness ==
    \E j \in Jobs :
        /\ hist[j].failed_row > 1
        /\ Len(hist[j].row_store) > Len(hist[j].begin_store)
        /\ \E id \in 1..Len(hist[j].begin_store) :
              hist[j].row_store[id] # hist[j].begin_store[id]

----------------------------------------------------------------------------
(* C6 *)

\* C6: every failure of a run has produced an error line that carries the
\* name of a row of the CSV.
C6_EveryFailureLogged ==
    \A j \in Jobs :
        job[j].pc = "raised" =>
            /\ job[j].log # <<>>
            /\ LastOf(job[j].log).level = "error"
            /\ \E k \in 1..Len(job[j].csv_data) :
                  LastOf(job[j].log).name = job[j].csv_data[k].name

RaisedBeforeLoop(e) ==
    e.kind = "DoesNotExist" /\ e.missing \in {"State", "City", "Active"}

\* C6 as amended: a failure raised while a row is processed (a classification
\* failure, a store error, a missing Data Center or Branch type) has produced
\* the error line of that row as the last log line; a missing State or City
\* type or Active status raises before the first row, with no log line and no
\* store call.
C6_FailureInRowLogged ==
    \A j \in Jobs :
        job[j].pc = "raised" =>
            LET e == job[j].exc[1] IN
            IF RaisedBeforeLoop(e)
            THEN /\ hist[j].failed_row = 0
                 /\ job[j].log = <<>>
                 /\ hist[j].calls = <<>>
            ELSE /\ hist[j].failed_row > 0
                 /\ job[j].log # <<>>
                 /\ LastOf(job[j].log)
                       = ErrorLine(job[j].csv_data[hist[j].failed_row].name, e)
                 /\ \/ e.kind \in {"ValueError", "StoreError", "MultipleObjectsReturned"}
                    \/ e.kind = "DoesNotExist" /\ e.missing \in LeafTypes

\* a row has raised for a missing Data Center type
C6_Witness ==
    \E j \in Jobs :
        /\ job[j].pc = "raised"
        /\ hist[j].failed_row > 0
        /\ job[j].exc[1].kind = "DoesNotExist"
        /\ job[j].exc[1].missing = "Data Center"

----------------------------------------------------------------------------
(* C7 *)

IsSiteLine(line) == line.text \in {"Created location", "Updated location"}

\* rows of job j that reached Done, by their log lines
RowsDone(j) == Len(SelectSeq(job[j].log, IsSiteLine))

\* C7: a run that has returned reports as N the number of rows of its CSV,
\* each of which reached Done, a repeated site name counted once per row, and
\* its result collection holds the site of each row in file order.
C7_SummaryCount ==
    \A j \in Jobs :
        job[j].pc = "returned" =>
            /\ job[j].result = <<[text |-> "Successfully processed",
                                  n |-> Len(job[j].csv_data)]>>
            /\ RowsDone(j) = Len(job[j].csv_data)
            /\ Len(job[j].created_or_updated) = Len(job[j].csv_data)
            /\ \A k \in 1..Len(job[j].csv_data) :
                  hist[j].end_store[job[j].created_or_updated[k]].name
                      = job[j].csv_data[k].name

\* a run has returned whose CSV names a site twice
C7_Witness ==
    \E j \in Jobs :
        /\ job[j].pc = "returned"
        /\ Len(job[j].csv_data) >= 2
        /\ job[j].csv_data[1].name = job[j].csv_data[2].name
        /\ job[j].result[1].n = Len(job[j].csv_data)

----------------------------------------------------------------------------
(* C8 *)

AllRowsDone(j) == RowsDone(j) = Len(job[j].csv_data)

\* C8: a run that has ended returned the summary if and only if every row of
\* its CSV reached Done.
C8_SummaryIffAllDone ==
    \A j \in Jobs :
        Ended(j) => (job[j].result # <<>> <=> AllRowsDone(j))

\* C8 as amended: a run that has ended returned the summary if and only if
\* the State and City types and the Active status were found and every row
\* of its CSV reached Done; a run in which a row failed returned none.
C8_SummaryOnlyOnSuccess ==
    \A j \in Jobs :
        /\ Ended(j) =>
              (job[j].result # <<>>
                  <=> /\ {"State", "City"} \subseteq location_types
                      /\ "Active" \in statuses
                      /\ AllRowsDone(j))
        /\ hist[j].failed_row > 0 => job[j].result = <<>>
        /\ job[j].result # <<>> =>
              /\ job[j].pc = "returned"
              /\ job[j].result = <<Summary(job[j].created_or_updated)>>

\* a row has raised after another row of the run reached Done
C8_Witness ==
    \E j \in Jobs :
        /\ job[j].pc = "raised"
        /\ RowsDone(j) >= 1
        /\ job[j].result = <<>>

----------------------------------------------------------------------------
(* C9 *)

\* C9: get_location_type returns the Data Center type for a name that ends in
\* "-DC" and the Branch type for a name that ends in "-BR" (DoesNotExist when
\* the LocationType table lacks the record), and for every other name raises
\* the failure that carries the name.
C9_ClassifiesBySuffix ==
    call_ret # <<>> =>
        LET ret == call_ret[1]
            Resolves(type) ==
                IF type \in location_types
                THEN ret.ok /\ ret.value = type
                ELSE ~ret.ok /\ ret.exc.kind = "DoesNotExist" /\ ret.exc.missing = type
        IN  IF HasSuffix(call_arg, <<"-", "D", "C">>) THEN Resolves("Data Center")
            ELSE IF HasSuffix(call_arg, <<"-", "B", "R">>) THEN Resolves("Branch")
            ELSE ~ret.ok /\ ret.exc.kind = "ValueError" /\ ret.exc.name = call_arg

\* a name that ends in "-BR" was classified as a Branch
C9_Witness ==
    /\ call_ret # <<>>
    /\ call_arg = <<"D", "-", "B", "R">>
    /\ call_ret[1].ok
    /\ call_ret[1].value = "Branch"

----------------------------------------------------------------------------
(* C10 *)

\* job j has just processed a row successfully
RowJustDone(j) ==
    /\ Current(j)
    /\ job[j].pc \in {"state", "returned"}
    /\ job[j].row > 1

\* C10: after a successfully processed row the State, the City and the site
\* that the row resolved all have status Active.
C10_AllActive ==
    \A j \in Jobs :
        RowJustDone(j) =>
            \A id \in {job[j].state_location, job[j].city_location, job[j].site_location} :
                locations[id].status = "Active"

\* C10 as amended: after a successfully processed row the site has status
\* Active, and so have the State and the City unless the record existed when
\* the row began and the row left it as it was.
C10_ActiveUnlessExisting ==
    \A j \in Jobs :
        RowJustDone(j) =>
            /\ locations[job[j].site_location].status = "Active"
            /\ \A id \in {job[j].state_location, job[j].city_location} :
                  locations[id].status # "Active" =>
                      /\ id <= Len(hist[j].row_store)
                      /\ locations[id] = hist[j].row_store[id]

\* a row found its State, its City and its site in the store, none of them
\* Active, and the site is Active after it
C10_Witness ==
    \E j \in Jobs :
        /\ RowJustDone(j)
        /\ locations[job[j].state_location].status = "Retired"
        /\ locations[job[j].city_location].status = "Retired"
        /\ job[j].site_location <= Len(hist[j].row_store)
        /\ hist[j].row_store[job[j].site_location].status = "Retired"
        /\ locations[job[j].site_location].status = "Active"

----------------------------------------------------------------------------
(* C11 *)

\* C11: right after ResolveSite created or updated a record, the record's
\* location_type is Data Center exactly when its name ends in "-DC" and
\* Branch exactly when its name ends in "-BR", and it is one of the two.
C11_TypeBySuffix ==
    \A j \in Jobs :
        RowJustDone(j) =>
            LET rec == locations[job[j].site_location] IN
            /\ rec.location_type \in LeafTypes
            /\ rec.location_type = "Data Center" <=> HasSuffix(rec.name, <<"-", "D", "C">>)
            /\ rec.location_type = "Branch" <=> HasSuffix(rec.name, <<"-", "B", "R">>)

\* a record named "A-DC" that was a Branch when the row began is a Data
\* Center after it
C11_Witness ==
    \E j \in Jobs :
        /\ RowJustDone(j)
        /\ job[j].site_location <= Len(hist[j].row_store)
        /\ hist[j].row_store[job[j].site_location].location_type = "Branch"
        /\ locations[job[j].site_location].location_type = "Data Center"
        /\ locations[job[j].site_location].name = A_DC

----------------------------------------------------------------------------
(* C12 *)

\* C12: the table has 50 keys; for a key normalize_state returns the full
\* name the table maps it to ("TX" gives "Texas", "CA" gives "California");
\* the match is case-sensitive: a token that is no key but whose upper-cased
\* form is one is not given that key's full name.
C12_TableLookup ==
    /\ Cardinality(STATE_MAPPING) = 50
    /\ Cardinality(StateKeys) = 50
    /\ call_ret # <<>> =>
          /\ \A kv \in STATE_MAPPING : call_arg = kv[1] => call_ret[1] = kv[2]
          /\ call_arg = <<"T", "X">> => call_ret[1] = <<"T", "e", "x", "a", "s">>
          /\ call_arg = <<"C", "A">> =>
                call_ret[1] = <<"C", "a", "l", "i", "f", "o", "r", "n", "i", "a">>
          /\ \A kv \in STATE_MAPPING :
                (call_arg # kv[1] /\ LowerCased(call_arg) = LowerCased(kv[1])) =>
                    /\ call_ret[1] # kv[2]
                    /\ Len(call_ret[1]) = 2

\* "NH" was normalized to "New Hampshire"
C12_Witness ==
    /\ call_ret # <<>>
    /\ call_arg = <<"N", "H">>
    /\ call_ret[1] = <<"N", "e", "w", " ", "H", "a", "m", "p", "s", "h", "i", "r", "e">>

----------------------------------------------------------------------------
(* C13 *)

\* t is s with the first letter of each word in upper case and the other
\* letters in lower case
IsTitleCased(t, s) ==
    /\ Len(t) = Len(s)
    /\ \A k \in 1..Len(s) :
          IF IsCased(s[k])
          THEN /\ ToLower(t[k]) = ToLower(s[k])
               /\ IF k = 1 THEN IsUpper(t[k])
                  ELSE IF IsCased(s[k - 1]) THEN IsLower(t[k])
                  ELSE IsUpper(t[k])
          ELSE t[k] = s[k]

\* C13: for a token that is no key of the table normalize_state returns the
\* title-cased token, and normalize_state applied to what it returned
\* returns the same again, for every token.
C13_TitleCaseIdempotent ==
    /\ (call_ret # <<>> /\ call_arg \notin StateKeys) =>
          IsTitleCased(call_ret[1], call_arg)
    /\ Len(call_ret) = 2 => call_ret[2] = call_ret[1]

\* "tX x" was normalized to "Tx X", and that again to itself
C13_Witness ==
    /\ Len(call_ret) = 2
    /\ call_arg = <<"t", "X", " ", "x">>
    /\ call_ret[1] = <<"T", "x", " ", "X">>
    /\ call_ret[2] = call_ret[1]

----------------------------------------------------------------------------
(* C14 *)

\* job j holds the State that its current row resolved
HoldsState(j) == job[j].pc \in {"city", "site", "save"}

\* name is what normalizing the state token gives: the table's full name for
\* a key, the title-cased token otherwise
IsNormalized(name, token) ==
    IF token \in StateKeys THEN <<token, name>> \in STATE_MAPPING
    ELSE IsTitleCased(name, token)

\* C14: starting from an empty Location table there is at most one State
\* record per name and at most one City record per name and parent, and the
\* State that a row resolved is the State record named by its normalized
\* state token, so rows whose tokens normalize to one name share the record.
C14_CreatedOnce ==
    FirstStore = <<>> =>
        /\ \A a, b \in 1..Len(locations) :
              (a # b /\ locations[a].name = locations[b].name
                     /\ locations[a].location_type = locations[b].location_type) =>
                  /\ locations[a].location_type # "State"
                  /\ locations[a].location_type = "City" =>
                        locations[a].parent # locations[b].parent
        /\ \A j \in Jobs :
              HoldsState(j) =>
                  /\ locations[job[j].state_location].location_type = "State"
                  /\ IsNormalized(locations[job[j].state_location].name,
                                  CurrentRow(job[j]).state)

\* a CSV with the tokens "TX" and "texas" was processed and the table holds
\* one State
C14_Witness ==
    \E j \in Jobs :
        /\ job[j].pc = "returned"
        /\ hist[j].begin_store = <<>>
        /\ \E k, m \in 1..Len(job[j].csv_data) :
              /\ job[j].csv_data[k].state = <<"T", "X">>
              /\ job[j].csv_data[m].state = <<"t", "e", "x", "a", "s">>
        /\ Cardinality({id \in 1..Len(locations) :
                            locations[id].location_type = "State"}) = 1

----------------------------------------------------------------------------
(* C15 *)

\* C15: a step that resolves the State or the City of a row leaves every
\* record of the table as it was (it may only add one), whereas the save of
\* a site that was found by name overwrites that record's location_type,
\* status and parent with the values of the row and leaves its name and
\* every other record as they were.
C15_FrameOfGetOrCreate ==
    [][\A j \in Jobs :
          /\ (job[j].pc \in {"state", "city"} /\ job'[j] # job[j]) =>
                /\ Len(locations') >= Len(locations)
                /\ \A id \in 1..Len(locations) : locations'[id] = locations[id]
          /\ (job[j].pc = "save" /\ job'[j].pc = "state") =>
                /\ Len(locations') = Len(locations)
                /\ \A id \in 1..Len(locations) :
                      IF id = job[j].site_location
                      THEN locations'[id] =
                              [name |-> locations[id].name,
                               location_type |->
                                   (IF HasSuffix(CurrentRow(job[j]).name, <<"-", "D", "C">>)
                                    THEN "Data Center" ELSE "Branch"),
                               status |-> "Active",
                               parent |-> job[j].city_location]
                      ELSE locations'[id] = locations[id]
    ]_vars

\* a row found its State and its City in the table and left them as they
\* were, and found its site and changed its location_type
C15_Witness ==
    \E j \in Jobs :
        /\ RowJustDone(j)
        /\ \A id \in {job[j].state_location, job[j].city_location, job[j].site_location} :
              id <= Len(hist[j].row_store)
        /\ locations[job[j].state_location] = hist[j].row_store[job[j].state_location]
        /\ locations[job[j].city_location] = hist[j].row_store[job[j].city_location]
        /\ locations[job[j].site_location].location_type
              # hist[j].row_store[job[j].site_location].location_type

----------------------------------------------------------------------------
(* C16 *)

IsCreationLine(line) ==
    line.text \in {"Created state location", "Created city location", "Created location"}

\* C16: each row that reached Done has emitted exactly one site line, which
\* says "Created" exactly when the table held no record with the row's name
\* when the row began and "Updated" otherwise, and the run has emitted one
\* creation line for each record it inserted.
C16_LogLines ==
    \A j \in Jobs :
        RowJustDone(j) =>
            LET row == job[j].csv_data[job[j].row - 1] IN
            /\ RowsDone(j) = job[j].row - 1
            /\ IsSiteLine(LastOf(job[j].log))
            /\ LastOf(job[j].log).name = row.name
            /\ LastOf(job[j].log).text = "Created location"
                  <=> Matching(hist[j].row_store, SiteKwargs(row.name)) = {}
            /\ Len(SelectSeq(job[j].log, IsCreationLine))
                  = Len(locations) - Len(hist[j].begin_store)

----------------------------------------------------------------------------
(* C17 *)

\* the run of job j has just raised the classification failure
ClassificationFailed(j) ==
    /\ Current(j)
    /\ job[j].pc = "raised"
    /\ hist[j].failed_row > 0
    /\ job[j].exc[1].kind = "ValueError"

FailedRow(j) == job[j].csv_data[hist[j].failed_row]

\* the State and City get-or-create of the failed row are in the table
StateAndCityApplied(j) ==
    LET row == FailedRow(j)
        state_ids == Matching(locations, StateKwargs(normalize_state(row.state)))
    IN  /\ job[j].state_location \in state_ids
        /\ job[j].city_location
              \in Matching(locations, CityKwargs(row.city, job[j].state_location))

----------------------------------------------------------------------------
(* C18 *)

\* the k-th parent of record i, None once the chain has ended
RECURSIVE KthParent(_, _, _)
KthParent(store, i, k) ==
    IF i = None THEN None
    ELSE IF k = 0 THEN i
    ELSE KthParent(store, store[i].parent, k - 1)

IsOwnAncestor(store, i) == \E k \in 1..Len(store) : KthParent(store, i, k) = i

\* C18: starting from an empty table no location is its own parent or
\* ancestor, and the record that ResolveSite has found by name and is about
\* to rewrite is never of type State or City.
C18_AcyclicLeafRewrites ==
    FirstStore = <<>> =>
        /\ \A i \in 1..Len(locations) : ~IsOwnAncestor(locations, i)
        /\ \A j \in Jobs :
               job[j].pc = "save" =>
                   locations[job[j].site_location].location_type \in LeafTypes

----------------------------------------------------------------------------
(* C19 *)

\* one row processed alone with no call refused: the table it leaves
SequentialRow(store, row) ==
    LET state == get_or_create(store, StateKwargs(normalize_state(row.state)),
                               StateDefaults, FALSE)
    IN  IF ~state.ok THEN [ok |-> FALSE, store |-> store]
        ELSE
    LET city == get_or_create(state.store, CityKwargs(row.city, state.id),
                              CityDefaults, FALSE)
    IN  IF ~city.ok THEN [ok |-> FALSE, store |-> state.store]
        ELSE
    LET location_type == get_location_type(location_types, row.name)
    IN  IF ~location_type.ok THEN [ok |-> FALSE, store |-> city.store]
        ELSE
    LET site == get_or_create(city.store, SiteKwargs(row.name),
                              SiteDefaults(location_type.value, city.id), FALSE)
    IN  IF ~site.ok THEN [ok |-> FALSE, store |-> city.store]
        ELSE IF site.created THEN [ok |-> TRUE, store |-> site.store]
        ELSE [ok |-> TRUE,
              store |-> [site.store EXCEPT ![site.id] =
                            UpdatedSite(@, location_type.value, city.id)]]

\* one execution alone on the whole CSV
RECURSIVE SequentialRun(_, _)
SequentialRun(store, csv) ==
    IF csv = <<>> THEN [ok |-> TRUE, store |-> store]
    ELSE LET done == SequentialRow(store, Head(csv))
         IN  IF done.ok THEN SequentialRun(done.store, Tail(csv)) ELSE done

BothReturned == \A j \in Instances : job[j].pc = "returned"

NoDuplicates(store) ==
    \A a, b \in 1..Len(store) :
        (a # b /\ store[a].name = store[b].name) =>
            /\ ~(store[a].location_type = "State" /\ store[b].location_type = "State")
            /\ ~(/\ store[a].location_type = "City"
                 /\ store[b].location_type = "City"
                 /\ store[a].parent = store[b].parent)
            /\ ~(/\ store[a].location_type \in LeafTypes
                 /\ store[b].location_type \in LeafTypes)

\* the table two instances leave is the one a single execution leaves
EqualsSequentialRun ==
    LET alone == SequentialRun(hist[1].begin_store, job[1].csv_data)
    IN  alone.ok /\ locations = alone.store

\* every leaf named in the CSV has the type, status and parent of the last
\* row that carries its name
LeavesOfLastRows(store, csv) ==
    \A id \in 1..Len(store), k \in 1..Len(csv) :
        (/\ store[id].location_type \in LeafTypes
         /\ store[id].name = csv[k].name
         /\ IsLastOfName(csv, k)) => IsSiteOfRow(store, id, csv[k])

C19_SameTableAsOneRun == BothReturned => EqualsSequentialRun

C19_NoDuplicatesWhenBothReturn ==
    (BothReturned /\ hist[1].begin_store = <<>>) => NoDuplicates(locations)

\* a single run leaves the table that SequentialRun computes
SequentialRunIsRun ==
    (job[1].pc = "returned" /\ job[2].pc = "idle") =>
        LET alone == SequentialRun(hist[1].begin_store, job[1].csv_data)
        IN  alone.ok /\ locations = alone.store

====
